---- MODULE Spec2Model ----
(***************************************************************************)
(* Model of the turn-handling core of astra_backend.py: the learner-state  *)
(* update (update_casm_from_messages), the two agent strategies (pta_step, *)
(* cga_step) and the turn router (handle_turn), driven by a caller that    *)
(* keeps the session's history and CASM state as app.py / run_astra.py do. *)
(*                                                                         *)
(* Text is a sequence of one-character strings wherever the repository's   *)
(* own code inspects it (message content, agent replies).  The reply of    *)
(* the inference call is kept as a whole text: the only thing done to it   *)
(* is the library call json.loads, tabulated in JsonLoads.                 *)
(* Message.timestamp is left out: no line of the core reads it.            *)
(***************************************************************************)
EXTENDS Integers, Sequences, FiniteSets, TLC

\* Longest history a session of the model builds.
MaxTurns == 4

\* The longest agent output, in lines, that the strategies are applied to on
\* their own.
MaxLines == 3

\* The largest small number of student turns the routing is applied to on
\* its own.
MaxCount == 12

\* The longest history the learner-state update is applied to on its own.
MaxEntries == 7

\* The longest history a Facilitator turn is applied to on its own.
MaxLong == 17

\* The longest list of participants the summaries are applied to on their own.
MaxParticipants == 3

----------------------------------------------------------------------------
(* Python values *)

PyNone == [type |-> "NoneType"]
PyInt(k) == [type |-> "int", value |-> k]

\* a % b as Python computes it for b # 0: the result has the sign of b.
PyMod(a, b) == IF b > 0 THEN a % b ELSE -((-a) % (-b))

EmptyDict == [k \in {} |-> k]

\* dict.get(key, default)
DictGet(d, key, default) == IF key \in DOMAIN d THEN d[key] ELSE default

\* An assignment that leaves the new entry alone in the dict.
DictSet_Replace(d, key, value) == [k \in {key} |-> value]

\* d[key] = value
DictSet(d, key, value) ==
    [k \in (DOMAIN d) \cup {key} |-> IF k = key THEN value ELSE d[k]]

\* The dict as d.setdefault(key, default) leaves it.
DictAfterSetDefault(d, key, default) ==
    IF key \in DOMAIN d THEN d ELSE DictSet(d, key, default)

\* The dict as d.get(key, default) leaves it: a look-up writes nothing.
DictAfterGet(d, key, default) == d

----------------------------------------------------------------------------
(* Characters and strings *)

UpperChars == <<"A", "B", "C", "D", "E", "F", "G", "H", "I", "J", "K", "L", "M",
                "N", "O", "P", "Q", "R", "S", "T", "U", "V", "W", "X", "Y", "Z">>
LowerChars == <<"a", "b", "c", "d", "e", "f", "g", "h", "i", "j", "k", "l", "m",
                "n", "o", "p", "q", "r", "s", "t", "u", "v", "w", "x", "y", "z">>

IndexIn(chars, c) == CHOOSE i \in 1..Len(chars) : chars[i] = c
IsIn(chars, c) == \E i \in 1..Len(chars) : chars[i] = c

\* str.lower() and str.upper()
StrLower(s) ==
    [i \in 1..Len(s) |->
        IF IsIn(UpperChars, s[i]) THEN LowerChars[IndexIn(UpperChars, s[i])] ELSE s[i]]
StrUpper(s) ==
    [i \in 1..Len(s) |->
        IF IsIn(LowerChars, s[i]) THEN UpperChars[IndexIn(LowerChars, s[i])] ELSE s[i]]

\* sub in s
StrContains(sub, s) ==
    \E i \in 1..(Len(s) - Len(sub) + 1) : SubSeq(s, i, i + Len(sub) - 1) = sub

\* s.startswith(prefix)
StartsWith(s, prefix) ==
    Len(s) >= Len(prefix) /\ SubSeq(s, 1, Len(prefix)) = prefix

\* The white space of the model's alphabet: the blank and the line feed.
IsSpace(c) == c \in {" ", "\n"}

RECURSIVE LStrip(_)
LStrip(s) == IF s # <<>> /\ IsSpace(Head(s)) THEN LStrip(Tail(s)) ELSE s

RECURSIVE RStrip(_)
RStrip(s) ==
    IF s # <<>> /\ IsSpace(s[Len(s)]) THEN RStrip(SubSeq(s, 1, Len(s) - 1)) ELSE s

\* str.strip()
Strip(s) == RStrip(LStrip(s))

\* Position of the first c in s, 0 when there is none.
FirstIndex(s, c) ==
    IF \E i \in 1..Len(s) : s[i] = c
    THEN CHOOSE i \in 1..Len(s) : s[i] = c /\ \A j \in 1..(i - 1) : s[j] # c
    ELSE 0

\* str.splitlines(): the line feed ends a line and is dropped; no empty last
\* line after a final line feed.
RECURSIVE SplitLines(_)
SplitLines(s) ==
    IF s = <<>> THEN <<>>
    ELSE LET i == FirstIndex(s, "\n") IN
         IF i = 0 THEN <<s>>
         ELSE <<SubSeq(s, 1, i - 1)>> \o SplitLines(SubSeq(s, i + 1, Len(s)))

\* "\n".join(lines)
RECURSIVE JoinLines(_)
JoinLines(lines) ==
    IF lines = <<>> THEN <<>>
    ELSE IF Len(lines) = 1 THEN lines[1]
    ELSE lines[1] \o <<"\n">> \o JoinLines(Tail(lines))

\* line.split(":", 1)[1]
AfterFirstColon(line) == SubSeq(line, FirstIndex(line, ":") + 1, Len(line))

----------------------------------------------------------------------------
(* Data model *)

StudentIds == {"student_A", "student_B"}

Message(sender_id, sender_role, content) ==
    [sender_id |-> sender_id, sender_role |-> sender_role, content |-> content]

CASMProfile(knowledge_level, misconceptions, affect, talkativeness) ==
    [knowledge_level |-> knowledge_level, misconceptions |-> misconceptions,
     affect |-> affect, talkativeness |-> talkativeness]

\* CASMProfile()
DefaultProfile == CASMProfile("medium", <<>>, "neutral", "medium")

\* CASMState()
EmptyCASM == [semantic |-> EmptyDict, episodic |-> EmptyDict, social |-> EmptyDict]

AgentResponse(content, agent_role, action_tag) ==
    [type |-> "AgentResponse", content |-> content, agent_role |-> agent_role,
     action_tag |-> action_tag]

\* LLMClient.generate either returns a text or raises.
GenReturns(text) == [raises |-> FALSE, text |-> text]
GenRaises == [raises |-> TRUE]

----------------------------------------------------------------------------
(* Texts of the model *)

Hi == <<"h", "i">>
AtTutor == <<"@", "T", "u", "t", "o", "r">>
TutorOnly == <<"t", "u", "t", "o", "r">>
AtBob == <<"@", "b", "o", "b">>

\* What the students type.
Contents == {Hi, AtTutor, TutorOnly, AtBob}

\* The literals of handle_turn's test and of the tag scan.
AT_SIGN == <<"@">>
TUTOR == <<"t", "u", "t", "o", "r">>
ACTION_TAG_PREFIX == <<"A", "C", "T", "I", "O", "N", "_", "T", "A", "G", ":">>
UNKNOWN == <<"U", "N", "K", "N", "O", "W", "N">>
NONE == <<"N", "O", "N", "E">>

\* Agent replies: "Try.\nACTION_TAG: hint", "ok\naction_tag:none " and "ok".
RawHint == <<"T", "r", "y", ".", "\n", "A", "C", "T", "I", "O", "N", "_", "T", "A",
             "G", ":", " ", "h", "i", "n", "t">>
RawNone == <<"o", "k", "\n", "a", "c", "t", "i", "o", "n", "_", "t", "a", "g", ":",
             "n", "o", "n", "e", " ">>
RawPlain == <<"o", "k">>

AgentReplies == {RawHint, RawNone, RawPlain}

\* Agent replies that differ in the value of the tag only: "ok\nACTION_TAG: "
\* followed by the tag.
TagReply(tag) == <<"o", "k", "\n">> \o ACTION_TAG_PREFIX \o <<" ">> \o tag
Tags == {NONE, UNKNOWN, <<"H", "I", "N", "T">>}
TagReplies == {TagReply(tag) : tag \in Tags}

\* Replies of the inference call.
InferReplies ==
    {"oops", "[]", "3", "\"x\"", "null", "{}", "{\"affect\": \"confused\"}",
     "{\"knowledge_level\": \"high\", \"affect\": \"engaged\", \"talkativeness\": \"low\", \"misconceptions\": [\"off-by-one\"]}"}

\* A reply whose object gives a field a value outside its enumeration.
InferExpert == "{\"knowledge_level\": \"expert\"}"

\* json.loads(raw) on the replies above: it raises on text that is not JSON and
\* returns a list, an int, a str, None or a dict otherwise.
JsonLoads(raw) ==
    CASE raw = "oops" -> [kind |-> "JSONDecodeError", value |-> EmptyDict]
      [] raw = "[]" -> [kind |-> "list", value |-> EmptyDict]
      [] raw = "3" -> [kind |-> "int", value |-> EmptyDict]
      [] raw = "\"x\"" -> [kind |-> "str", value |-> EmptyDict]
      [] raw = "null" -> [kind |-> "NoneType", value |-> EmptyDict]
      [] raw = "{}" -> [kind |-> "dict", value |-> EmptyDict]
      [] raw = "{\"affect\": \"confused\"}" ->
            [kind |-> "dict", value |-> [affect |-> "confused"]]
      [] raw = InferExpert ->
            [kind |-> "dict", value |-> [knowledge_level |-> "expert"]]
      [] OTHER ->
            [kind |-> "dict",
             value |-> [knowledge_level |-> "high", affect |-> "engaged",
                        talkativeness |-> "low", misconceptions |-> <<"off-by-one">>]]

----------------------------------------------------------------------------
(* update_casm_from_messages *)

\* The sizes of the two windows: utterances[-5:] and history[-15:].
UTTERANCE_WINDOW == 5
TURN_WINDOW == 15

\* s[:n], the other end of the list.
FirstN(s, n) == IF Len(s) <= n THEN s ELSE SubSeq(s, 1, n)

\* s[-n:]
LastN(s, n) == IF Len(s) <= n THEN s ELSE SubSeq(s, Len(s) - n + 1, Len(s))

\* The history cut to its last entries first and filtered afterwards.
Utterances_CutFirst(student_id, recent_messages) ==
    LET ByStudent(m) == m.sender_id = student_id
        own == SelectSeq(LastN(recent_messages, UTTERANCE_WINDOW), ByStudent)
    IN  [i \in 1..Len(own) |-> own[i].content]

\* [m.content for m in recent_messages if m.sender_id == student_id]
Utterances(student_id, recent_messages) ==
    LET ByStudent(m) == m.sender_id = student_id
        own == SelectSeq(recent_messages, ByStudent)
    IN  [i \in 1..Len(own) |-> own[i].content]

\* The user prompt of the inference call: its one variable part is last_text,
\* the join of utterances[-5:], kept here as the list that is joined.
InferencePrompt(student_id, recent_messages) ==
    [last_utterances |-> LastN(Utterances(student_id, recent_messages),
                               UTTERANCE_WINDOW)]

\* A failed generate call treated as an empty object: the except clause that
\* sets data = {} and goes on.
update_casm_EmptyOnFailure(gen, casm, student_id, recent_messages) ==
    LET profile == DictGet(casm.social, student_id, DefaultProfile)
        data == IF gen.raises
                THEN [kind |-> "dict", value |-> EmptyDict]
                ELSE JsonLoads(gen.text)
    IN  IF data.kind = "JSONDecodeError"
        THEN [raised |-> FALSE, merged |-> FALSE, casm |-> casm,
              user_prompt |-> InferencePrompt(student_id, recent_messages)]
        ELSE IF data.kind # "dict"
        THEN [raised |-> TRUE, merged |-> FALSE, casm |-> casm,
              user_prompt |-> InferencePrompt(student_id, recent_messages)]
        ELSE [raised |-> FALSE, merged |-> TRUE,
              user_prompt |-> InferencePrompt(student_id, recent_messages),
              casm |-> [casm EXCEPT !.social =
                           DictSet(casm.social, student_id,
                               CASMProfile(
                                   DictGet(data.value, "knowledge_level",
                                           profile.knowledge_level),
                                   DictGet(data.value, "misconceptions",
                                           profile.misconceptions),
                                   DictGet(data.value, "affect", profile.affect),
                                   DictGet(data.value, "talkativeness",
                                           profile.talkativeness)))]]

\* Absent keys taken from CASMProfile() instead of the stored profile.
update_casm_DefaultsForAbsent(gen, casm, student_id, recent_messages) ==
    LET data == IF gen.raises
                THEN [kind |-> "generate raised", value |-> EmptyDict]
                ELSE JsonLoads(gen.text)
    IN  IF data.kind \in {"generate raised", "JSONDecodeError"}
        THEN [raised |-> FALSE, merged |-> FALSE, casm |-> casm,
              user_prompt |-> InferencePrompt(student_id, recent_messages)]
        ELSE IF data.kind # "dict"
        THEN [raised |-> TRUE, merged |-> FALSE, casm |-> casm,
              user_prompt |-> InferencePrompt(student_id, recent_messages)]
        ELSE [raised |-> FALSE, merged |-> TRUE,
              user_prompt |-> InferencePrompt(student_id, recent_messages),
              casm |-> [casm EXCEPT !.social =
                           DictSet(casm.social, student_id,
                               CASMProfile(
                                   DictGet(data.value, "knowledge_level",
                                           DefaultProfile.knowledge_level),
                                   DictGet(data.value, "misconceptions",
                                           DefaultProfile.misconceptions),
                                   DictGet(data.value, "affect", DefaultProfile.affect),
                                   DictGet(data.value, "talkativeness",
                                           DefaultProfile.talkativeness)))]]

\* The result of a call: whether it raised, and the CASM object afterwards (the
\* object is changed in place, so this is also what the caller's reference sees).
update_casm_from_messages(gen, casm, student_id, recent_messages) ==
    LET data == IF gen.raises
                THEN [kind |-> "generate raised", value |-> EmptyDict]
                ELSE JsonLoads(gen.text)
    IN  IF data.kind \in {"generate raised", "JSONDecodeError"}
        THEN [raised |-> FALSE, merged |-> FALSE, casm |-> casm,
              user_prompt |-> InferencePrompt(student_id, recent_messages)]
        ELSE IF data.kind # "dict"
        THEN \* data.get on a list, int, str or None: AttributeError
             [raised |-> TRUE, merged |-> FALSE, casm |-> casm,
              user_prompt |-> InferencePrompt(student_id, recent_messages)]
        ELSE LET profile == DictGet(casm.social, student_id, DefaultProfile)
                 knowledge_level ==
                     DictGet(data.value, "knowledge_level", profile.knowledge_level)
                 affect == DictGet(data.value, "affect", profile.affect)
                 talk == DictGet(data.value, "talkativeness", profile.talkativeness)
                 misconceptions ==
                     DictGet(data.value, "misconceptions", profile.misconceptions)
             IN  [raised |-> FALSE, merged |-> TRUE,
              user_prompt |-> InferencePrompt(student_id, recent_messages),
                  casm |-> [casm EXCEPT !.social =
                               DictSet(casm.social, student_id,
                                       CASMProfile(knowledge_level, misconceptions,
                                                   affect, talk))]]

----------------------------------------------------------------------------
(* The agent strategies *)

IsTagLine(line) == StartsWith(StrUpper(Strip(line)), ACTION_TAG_PREFIX)

\* A scan that takes the tag only from the last line of the reply.
RECURSIVE ScanLines_TagAtEnd(_, _, _)
ScanLines_TagAtEnd(lines, action_tag, content_lines) ==
    IF lines = <<>>
    THEN [action_tag |-> action_tag, content |-> Strip(JoinLines(content_lines))]
    ELSE IF IsTagLine(Head(lines)) /\ Len(lines) = 1
    THEN ScanLines_TagAtEnd(Tail(lines), StrUpper(Strip(AfterFirstColon(Head(lines)))),
                            content_lines)
    ELSE ScanLines_TagAtEnd(Tail(lines), action_tag, Append(content_lines, Head(lines)))

\* The loop over the reply's lines, shared by pta_step and cga_step.
RECURSIVE ScanLines(_, _, _)
ScanLines(lines, action_tag, content_lines) ==
    IF lines = <<>>
    THEN [action_tag |-> action_tag, content |-> Strip(JoinLines(content_lines))]
    ELSE IF IsTagLine(Head(lines))
    THEN ScanLines(Tail(lines), StrUpper(Strip(AfterFirstColon(Head(lines)))),
                   content_lines)
    ELSE ScanLines(Tail(lines), action_tag, Append(content_lines, Head(lines)))

\* raw.strip().splitlines() and the loop, from the default tag.
ParseReply(raw, default_tag) == ScanLines(SplitLines(Strip(raw)), default_tag, <<>>)

\* Lines an agent may write: two lines of content, a tag line, a tag line in
\* lower case with blanks around it and a second colon, a line that mentions
\* the prefix without starting with it, and the empty line.
LineTry == <<"T", "r", "y", ".">>
LineOk == <<" ", "o", "k", " ">>
LineTag ==
    <<"A", "C", "T", "I", "O", "N", "_", "T", "A", "G", ":", " ", "h",
    "i", "n", "t">>
LineTagLower ==
    <<" ", "a", "c", "t", "i", "o", "n", "_", "t", "a", "g", ":", "q",
    ":", "r", " ">>
LineMention ==
    <<"n", "o", " ", "A", "C", "T", "I", "O", "N", "_", "T", "A", "G",
    ":", "x">>
LineEmpty == <<>>
ReplyLines == {LineTry, LineOk, LineTag, LineTagLower, LineMention, LineEmpty}

\* Agent outputs of up to MaxLines of these lines.
LinedReplies ==
    {JoinLines(lines) : lines \in UNION {[1..n -> ReplyLines] : n \in 0..MaxLines}}

\* ParseReply over the replies of the model, computed once.
ParsedReplies ==
    [raw \in AgentReplies \cup TagReplies \cup LinedReplies |-> [default_tag \in {UNKNOWN, NONE} |->
        ParseReply(raw, default_tag)]]

\* sep.join(items), as the sequence of its pieces.
RECURSIVE JoinPieces(_, _)
JoinPieces(sep, items) ==
    IF items = <<>> THEN <<>>
    ELSE IF Len(items) = 1 THEN <<items[1]>>
    ELSE <<items[1], sep>> \o JoinPieces(sep, Tail(items))

\* The text summarise_casm_for_student formats, as the sequence of its pieces.
summarise_casm_for_student(casm, student_id) ==
    LET profile == DictGet(casm.social, student_id, DefaultProfile)
        misconceptions == IF profile.misconceptions # <<>>
                          THEN JoinPieces("; ", profile.misconceptions)
                          ELSE <<"none noted yet">>
    IN  <<"Knowledge level: ", profile.knowledge_level, ". ",
          "Affect: ", profile.affect, ". ",
          "Talkativeness: ", profile.talkativeness, ". ",
          "Key misconceptions: ">> \o misconceptions \o <<".">>

\* The text summarise_group_state formats, as the list of the lines it joins
\* with line feeds: one line per participant, in the order of participant_ids.
RECURSIVE summarise_group_state(_, _)
summarise_group_state(casm, participant_ids) ==
    IF participant_ids = <<>> THEN <<>>
    ELSE LET sid == Head(participant_ids)
             profile == DictGet(casm.social, sid, DefaultProfile)
             misconceptions == IF profile.misconceptions # <<>>
                               THEN JoinPieces("; ", profile.misconceptions)
                               ELSE <<"none">>
         IN  <<(<<sid, ": knowledge=", profile.knowledge_level,
                  ", affect=", profile.affect,
                  ", talkativeness=", profile.talkativeness,
                  ", misconceptions=">> \o misconceptions)>>
             \o summarise_group_state(casm, Tail(participant_ids))

\* The CASMState object as summarise_casm_for_student leaves it: its one use
\* of the object is the look-up of the student's profile.
CasmAfterStudentSummary(casm, student_id) ==
    [casm EXCEPT !.social = DictAfterGet(casm.social, student_id, DefaultProfile)]

\* The CASMState object as summarise_group_state leaves it: one look-up per
\* participant, in the order of the loop.
RECURSIVE CasmAfterGroupSummary(_, _)
CasmAfterGroupSummary(casm, participant_ids) ==
    IF participant_ids = <<>> THEN casm
    ELSE CasmAfterGroupSummary(
             [casm EXCEPT !.social = DictAfterGet(casm.social, Head(participant_ids),
                                                  DefaultProfile)],
             Tail(participant_ids))

\* The user prompt of pta_step: its three variable parts.
PtaPrompt(student_msg, casm, task_context) ==
    [task_context |-> task_context,
     casm_summary |-> summarise_casm_for_student(casm, student_msg.sender_id),
     content |-> student_msg.content]

\* f"{m.sender_id} ({m.sender_role}): {m.content}"
ConvoLine(m) == <<m.sender_id, " (", m.sender_role, "): ", m.content>>

\* The user prompt of cga_step: its two variable parts, convo as the list of
\* the lines that are joined.
CgaPrompt(history, casm, participant_ids) ==
    LET last_turns == LastN(history, TURN_WINDOW)
    IN  [convo |-> [i \in 1..Len(last_turns) |-> ConvoLine(last_turns[i])],
         group_state |-> summarise_group_state(casm, participant_ids)]

pta_step(gen, student_msg, casm, task_context) ==
    LET user_prompt == PtaPrompt(student_msg, casm, task_context)
    IN  IF gen.raises
        THEN [raised |-> TRUE, response |-> PyNone, user_prompt |-> user_prompt]
        ELSE LET parsed == ParsedReplies[gen.text][UNKNOWN]
             IN  [raised |-> FALSE, user_prompt |-> user_prompt,
                  response |-> AgentResponse(parsed.content, "pta", parsed.action_tag)]

\* A failed generate call turned into "no intervention" instead of raising.
cga_step_Swallow(gen, history, casm, participant_ids) ==
    LET user_prompt == CgaPrompt(history, casm, participant_ids)
    IN  IF gen.raises
        THEN [raised |-> FALSE, user_prompt |-> user_prompt,
              response |-> AgentResponse(<<>>, "cga", NONE)]
        ELSE LET parsed == ParsedReplies[gen.text][NONE]
             IN  [raised |-> FALSE, user_prompt |-> user_prompt,
                  response |-> AgentResponse(parsed.content, "cga", parsed.action_tag)]

\* A group summary that cannot be made for an empty list of participants.
cga_step_EmptyGroupRaises(gen, history, casm, participant_ids) ==
    LET user_prompt == CgaPrompt(history, casm, participant_ids)
    IN  IF gen.raises \/ participant_ids = <<>>
        THEN [raised |-> TRUE, response |-> PyNone, user_prompt |-> user_prompt]
        ELSE LET parsed == ParsedReplies[gen.text][NONE]
             IN  [raised |-> FALSE, user_prompt |-> user_prompt,
                  response |-> AgentResponse(parsed.content, "cga", parsed.action_tag)]

\* The Tutor's default tag used for the Facilitator as well.
cga_step_DefaultUnknown(gen, history, casm, participant_ids) ==
    LET user_prompt == CgaPrompt(history, casm, participant_ids)
    IN  IF gen.raises
        THEN [raised |-> TRUE, response |-> PyNone, user_prompt |-> user_prompt]
        ELSE LET parsed == ParsedReplies[gen.text][UNKNOWN]
             IN  [raised |-> FALSE, user_prompt |-> user_prompt,
                  response |-> AgentResponse(parsed.content, "cga", parsed.action_tag)]

cga_step(gen, history, casm, participant_ids) ==
    LET user_prompt == CgaPrompt(history, casm, participant_ids)
    IN  IF gen.raises
        THEN [raised |-> TRUE, response |-> PyNone, user_prompt |-> user_prompt]
        ELSE LET parsed == ParsedReplies[gen.text][NONE]
             IN  [raised |-> FALSE, user_prompt |-> user_prompt,
                  response |-> AgentResponse(parsed.content, "cga", parsed.action_tag)]

----------------------------------------------------------------------------
(* handle_turn *)

\* history.append(new_message): the caller's list object grows too.
ExtendHistory_InPlace(history, new_message) ==
    [local |-> history \o <<new_message>>, caller |-> history \o <<new_message>>]

\* history = history + [new_message]: a new list; the caller's list object keeps
\* its contents.
ExtendHistory(history, new_message) ==
    [local |-> history \o <<new_message>>, caller |-> history]

\* len(history): every entry counted, whatever its role.
CountStudentTurns_AllEntries(history) == Len(history)

\* A count that a message addressed to the tutor does not advance.
CountStudentTurns_Unaddressed(history) ==
    Cardinality({i \in 1..Len(history) :
                    /\ history[i].sender_role = "student"
                    /\ ~(/\ StrContains(AT_SIGN, history[i].content)
                         /\ StrContains(TUTOR, StrLower(history[i].content)))})

\* len([m for m in history if m.sender_role == "student"])
CountStudentTurns(history) ==
    Cardinality({i \in 1..Len(history) : history[i].sender_role = "student"})

\* "@" in new_message.content and "tutor" in new_message.content.lower()
ContainsAtTutor(content) ==
    StrContains(AT_SIGN, content) /\ StrContains(TUTOR, StrLower(content))

\* ContainsAtTutor over the contents of the model, computed once.
AddressedContents == {content \in Contents : ContainsAtTutor(content)}

IsAddressed(content) == content \in AddressedContents

\* The period counted from the turn before: (total_student_turns + 1) in the test.
IsDue_OffByOne(total_student_turns, cga_frequency) ==
    IF cga_frequency.type = "NoneType" THEN "TypeError"
    ELSE IF cga_frequency.value = 0 THEN "ZeroDivisionError"
    ELSE IF PyMod(total_student_turns + 1, cga_frequency.value) = 0
            /\ total_student_turns > 0
    THEN "True"
    ELSE "False"

\* total_student_turns % cga_frequency == 0 and total_student_turns > 0, which
\* raises TypeError for a cga_frequency of None and ZeroDivisionError for 0.
IsDue(total_student_turns, cga_frequency) ==
    IF cga_frequency.type = "NoneType" THEN "TypeError"
    ELSE IF cga_frequency.value = 0 THEN "ZeroDivisionError"
    ELSE IF PyMod(total_student_turns, cga_frequency.value) = 0
            /\ total_student_turns > 0
    THEN "True"
    ELSE "False"

\* The periodic test placed before the test of the addressing.
SelectBranch_PeriodFirst(content, total_student_turns, cga_frequency) ==
    LET due == IsDue(total_student_turns, cga_frequency)
    IN  IF due = "True" THEN "cga"
        ELSE IF IsAddressed(content) \/ due = "False" THEN "pta"
        ELSE due

\* The if / elif / else of handle_turn: the branch taken, or the exception the
\* elif's test raises.
SelectBranch(content, total_student_turns, cga_frequency) ==
    IF IsAddressed(content) THEN "pta"
    ELSE LET due == IsDue(total_student_turns, cga_frequency)
         IN  IF due = "True" THEN "cga"
             ELSE IF due = "False" THEN "pta"
             ELSE due

\* The suppression left out.
Surface_Always(response) == response

\* The test of the tag the wrong way round.
Surface_Inverted(response) == IF response.action_tag # NONE THEN PyNone ELSE response

\* if response.action_tag == "NONE": response = None   (Facilitator branch only)
Surface(response) == IF response.action_tag = NONE THEN PyNone ELSE response

\* The agent's prompt built before the learner-state update of the turn.
handle_turn_AgentFirst(generate, new_message, history, casm, participant_ids, task_context, cga_frequency) ==
    LET ext == ExtendHistory(history, new_message)
        upd == update_casm_from_messages(generate[1], casm, new_message.sender_id,
                                         ext.local)
        total_student_turns == CountStudentTurns(ext.local)
        branch == SelectBranch(new_message.content, total_student_turns,
                               cga_frequency)
        step == IF branch = "cga"
                THEN cga_step(generate[2], ext.local, casm, participant_ids)
                ELSE pta_step(generate[2], new_message, casm, task_context)
        infer_call == [prompt |-> "infer", outcome |-> generate[1],
                       user_prompt |-> upd.user_prompt]
        agent_call == [prompt |-> branch, outcome |-> generate[2],
                       user_prompt |-> step.user_prompt]
        base == [raised |-> "", casm |-> upd.casm, history |-> ext.local,
                 response |-> PyNone, caller_history |-> ext.caller,
                 calls |-> <<infer_call>>, total_student_turns |-> -1,
                 agent |-> "none", agent_response |-> PyNone]
    IN  IF upd.raised
        THEN [base EXCEPT !.raised = "AttributeError"]
        ELSE IF branch \notin {"pta", "cga"}
        THEN [base EXCEPT !.raised = branch,
                          !.total_student_turns = total_student_turns]
        ELSE IF step.raised
        THEN [base EXCEPT !.raised = "generate",
                          !.total_student_turns = total_student_turns,
                          !.agent = branch,
                          !.calls = <<infer_call, agent_call>>]
        ELSE [base EXCEPT !.total_student_turns = total_student_turns,
                          !.agent = branch,
                          !.calls = <<infer_call, agent_call>>,
                          !.agent_response = step.response,
                          !.response = IF branch = "cga"
                                       THEN Surface(step.response)
                                       ELSE step.response]

\* A Facilitator turn that goes on to ask the Tutor as well.
handle_turn_TutorAfterFacilitator(generate, new_message, history, casm, participant_ids, task_context, cga_frequency) ==
    LET ext == ExtendHistory(history, new_message)
        upd == update_casm_from_messages(generate[1], casm, new_message.sender_id,
                                         ext.local)
        total_student_turns == CountStudentTurns(ext.local)
        branch == SelectBranch(new_message.content, total_student_turns,
                               cga_frequency)
        step == IF branch = "cga"
                THEN cga_step(generate[2], ext.local, upd.casm, participant_ids)
                ELSE pta_step(generate[2], new_message, upd.casm, task_context)
        infer_call == [prompt |-> "infer", outcome |-> generate[1],
                       user_prompt |-> upd.user_prompt]
        agent_call == [prompt |-> branch, outcome |-> generate[2],
                       user_prompt |-> step.user_prompt]
        base == [raised |-> "", casm |-> upd.casm, history |-> ext.local,
                 response |-> PyNone, caller_history |-> ext.caller,
                 calls |-> <<infer_call>>, total_student_turns |-> -1,
                 agent |-> "none", agent_response |-> PyNone]
    IN  IF upd.raised
        THEN [base EXCEPT !.raised = "AttributeError"]
        ELSE IF branch \notin {"pta", "cga"}
        THEN [base EXCEPT !.raised = branch,
                          !.total_student_turns = total_student_turns]
        ELSE IF step.raised
        THEN [base EXCEPT !.raised = "generate",
                          !.total_student_turns = total_student_turns,
                          !.agent = branch,
                          !.calls = <<infer_call, agent_call>>]
        ELSE [base EXCEPT !.total_student_turns = total_student_turns,
                          !.agent = branch,
                          !.calls = IF branch = "cga"
                                    THEN <<infer_call, agent_call,
                                           [prompt |-> "pta", outcome |-> generate[2],
                                            user_prompt |-> PtaPrompt(new_message, upd.casm,
                                                                      task_context)]>>
                                    ELSE <<infer_call, agent_call>>,
                          !.agent_response = step.response,
                          !.response = IF branch = "cga"
                                       THEN Surface(step.response)
                                       ELSE step.response]

\* One call of handle_turn.  generate is what the client does on the first and
\* on the second generate call of the turn.  The result records how the call
\* ended (raised: "" when it returned, otherwise the place or the exception),
\* what it returned (casm, history, response), the caller's list object as the
\* call leaves it, and what the call did on the way: calls, the generate calls
\* in order with their user prompts and outcomes; agent, the strategy invoked; agent_response,
\* what the strategy returned; total_student_turns, -1 when never computed.
handle_turn(generate, new_message, history, casm, participant_ids, task_context, cga_frequency) ==
    LET ext == ExtendHistory(history, new_message)
        upd == update_casm_from_messages(generate[1], casm, new_message.sender_id,
                                         ext.local)
        total_student_turns == CountStudentTurns(ext.local)
        branch == SelectBranch(new_message.content, total_student_turns,
                               cga_frequency)
        step == IF branch = "cga"
                THEN cga_step(generate[2], ext.local, upd.casm, participant_ids)
                ELSE pta_step(generate[2], new_message, upd.casm, task_context)
        infer_call == [prompt |-> "infer", outcome |-> generate[1],
                       user_prompt |-> upd.user_prompt]
        agent_call == [prompt |-> branch, outcome |-> generate[2],
                       user_prompt |-> step.user_prompt]
        base == [raised |-> "", casm |-> upd.casm, history |-> ext.local,
                 response |-> PyNone, caller_history |-> ext.caller,
                 calls |-> <<infer_call>>, total_student_turns |-> -1,
                 agent |-> "none", agent_response |-> PyNone]
    IN  IF upd.raised
        THEN [base EXCEPT !.raised = "AttributeError"]
        ELSE IF branch \notin {"pta", "cga"}
        THEN [base EXCEPT !.raised = branch,
                          !.total_student_turns = total_student_turns]
        ELSE IF step.raised
        THEN [base EXCEPT !.raised = "generate",
                          !.total_student_turns = total_student_turns,
                          !.agent = branch,
                          !.calls = <<infer_call, agent_call>>]
        ELSE [base EXCEPT !.total_student_turns = total_student_turns,
                          !.agent = branch,
                          !.calls = <<infer_call, agent_call>>,
                          !.agent_response = step.response,
                          !.response = IF branch = "cga"
                                       THEN Surface(step.response)
                                       ELSE step.response]

----------------------------------------------------------------------------
(* The session: a caller that drives handle_turn one turn at a time *)

VARIABLES
    history,        \* the caller's history list
    casm,           \* the caller's CASMState object
    cga_frequency,  \* the cga_frequency the caller passes on every turn
    turn,           \* the last call of handle_turn: its arguments and its result
    probe           \* a function of the program applied on its own: input and result

vars == <<history, casm, cga_frequency, turn, probe>>

participants == <<"student_A", "student_B">>
task_context == "debug short Python programs"

\* The values of cga_frequency: None, zero, a negative and positive periods.
Frequencies == {PyNone} \cup {PyInt(k) : k \in {-2, 0, 1, 2, 4}}

\* The messages the students send: one addressed to the tutor, and three that
\* are not (plain, "tutor" without "@", "@" without "tutor").
StudentMessages ==
    {Message("student_A", "student", Hi), Message("student_A", "student", AtTutor),
     Message("student_B", "student", TutorOnly),
     Message("student_B", "student", AtBob)}

Generations(replies) == {GenRaises} \cup {GenReturns(t) : t \in replies}

NoResult ==
    [raised |-> "", casm |-> EmptyCASM, history |-> <<>>, response |-> PyNone,
     caller_history |-> <<>>, calls |-> <<>>, total_student_turns |-> -1,
     agent |-> "none", agent_response |-> PyNone]

\* No function is applied on its own in a session.
NoProbe == [op |-> "none"]

\* Before the first turn.
NoTurn ==
    [called |-> FALSE, new_message |-> Message("", "", <<>>), history |-> <<>>,
     casm |-> EmptyCASM, result |-> NoResult]

Init ==
    /\ history = <<>>
    /\ casm = EmptyCASM
    /\ cga_frequency \in Frequencies
    /\ turn = NoTurn
    /\ probe = NoProbe

\* A call that raised and left the CASM object as it was has put the session
\* back in the state it had before the call: the turns that can follow are
\* the ones that follow that earlier state, and are explored from there.
BackWhereItWas ==
    turn.called /\ turn.result.raised # "" /\ turn.casm = casm

\* casm, history, agent_resp = handle_turn(...): the caller keeps the returned
\* history; when the call raises (the except branch of run_student_ui) it keeps
\* the history it had.  The CASM object is the one handle_turn changed in place
\* either way.
HandleTurn(new_message, infer, agent) ==
    /\ Len(history) < MaxTurns
    /\ ~BackWhereItWas
    /\ turn' = [called |-> TRUE, new_message |-> new_message,
                history |-> history, casm |-> casm,
                result |-> handle_turn(<<infer, agent>>, new_message, history, casm,
                                       participants, task_context, cga_frequency)]
    /\ casm' = turn'.result.casm
    /\ history' = IF turn'.result.raised = "" THEN turn'.result.history ELSE history
    /\ UNCHANGED <<cga_frequency, probe>>

\* The caller's list is its own: it may put an entry on it between two turns.
CallerAppend(message) ==
    /\ Len(history) < MaxTurns
    /\ ~BackWhereItWas
    /\ history' = Append(history, message)
    /\ UNCHANGED <<casm, cga_frequency, turn, probe>>

\* Sessions that exercise the routing: every cga_frequency, every message, every
\* agent reply; the inference call raises, returns JSON that is no object, or
\* returns an object.
RoutingInferReplies == {"[]", "{}"}

Next ==
    \E new_message \in StudentMessages :
        \E infer \in Generations(RoutingInferReplies),
           agent \in Generations(AgentReplies) :
            HandleTurn(new_message, infer, agent)

Spec == Init /\ [][Next]_vars

\* Sessions that exercise the learner-state update: every reply of the inference
\* call, under one period.
InitUpdate ==
    /\ history = <<>>
    /\ casm = EmptyCASM
    /\ cga_frequency = PyInt(2)
    /\ turn = NoTurn
    /\ probe = NoProbe

UpdateMessages ==
    {Message("student_A", "student", Hi), Message("student_B", "student", TutorOnly)}

NextUpdate ==
    \E new_message \in UpdateMessages :
        \E infer \in Generations(InferReplies),
           agent \in Generations({RawHint}) :
            HandleTurn(new_message, infer, agent)

SpecUpdate == InitUpdate /\ [][NextUpdate]_vars

\* Sessions in which the caller also puts entries on the history itself: a
\* student message, and an agent's reply.
InitCaller ==
    /\ history = <<>>
    /\ casm = EmptyCASM
    /\ cga_frequency \in {PyInt(2), PyInt(4)}
    /\ turn = NoTurn
    /\ probe = NoProbe

CallerEntries ==
    {Message("student_B", "student", Hi), Message("tutor", "pta", Hi)}

NextCaller ==
    \/ \E new_message \in {Message("student_A", "student", Hi),
                           Message("student_A", "student", AtTutor)} :
          \E infer \in Generations({"{}"}), agent \in Generations({RawHint, RawNone}) :
              HandleTurn(new_message, infer, agent)
    \/ \E message \in CallerEntries : CallerAppend(message)

SpecCaller == InitCaller /\ [][NextCaller]_vars

\* Sessions that start from a learner state a caller has filled in: a semantic
\* and an episodic entry, and the profile of a student who sends nothing.
SeededCASM ==
    [semantic |-> [student_A |-> [loops |-> 1]],
     episodic |-> [student_A |-> <<"asked about loops">>],
     social |-> [student_C |-> CASMProfile("low", <<"scope">>, "frustrated", "high")]]

InitFrame ==
    /\ history = <<>>
    /\ casm \in {EmptyCASM, SeededCASM}
    /\ cga_frequency = PyInt(2)
    /\ turn = NoTurn
    /\ probe = NoProbe

FrameInferReplies == {"{}", "{\"affect\": \"confused\"}", InferExpert}

NextFrame ==
    \E new_message \in UpdateMessages :
        \E infer \in Generations(FrameInferReplies),
           agent \in Generations({RawHint}) :
            HandleTurn(new_message, infer, agent)

SpecFrame == InitFrame /\ [][NextFrame]_vars

\* Histories whose entries can be told apart: the i-th entry has the content
\* "m" followed by the digit i, and is a message of one of the two students or
\* a reply of the Tutor.
Digits == <<"1", "2", "3", "4", "5", "6", "7", "8", "9">>
NumberedContent(i) == <<"m", Digits[i]>>
Authors ==
    {[sender_id |-> "student_A", sender_role |-> "student"],
     [sender_id |-> "student_B", sender_role |-> "student"],
     [sender_id |-> "tutor", sender_role |-> "pta"]}
NumberedHistories ==
    UNION {{[i \in 1..n |-> Message(authors[i].sender_id, authors[i].sender_role,
                                      NumberedContent(i))] : authors \in [1..n -> Authors]} :
           n \in 0..MaxEntries}

\* The learner-state update applied on its own: a history and a student are
\* drawn first, then the update is called for them with a client that returns
\* an empty object, and the prompt it sent is kept.
InitWindow ==
    /\ history = <<>>
    /\ casm = EmptyCASM
    /\ cga_frequency = PyInt(4)
    /\ turn = NoTurn
    /\ probe \in {[op |-> "messages", student_id |-> student_id,
                    recent_messages |-> recent_messages, user_prompt |-> PyNone] :
                        student_id \in StudentIds, recent_messages \in NumberedHistories}

ApplyUpdate ==
    /\ probe.op = "messages"
    /\ probe' = [probe EXCEPT !.op = "update_casm_from_messages",
                   !.user_prompt = update_casm_from_messages(GenReturns("{}"), casm,
                                        probe.student_id, probe.recent_messages).user_prompt]
    /\ UNCHANGED <<history, casm, cga_frequency, turn>>

NextWindow == ApplyUpdate

SpecWindow == InitWindow /\ [][NextWindow]_vars

\* Long histories whose entries can be told apart: the i-th entry has the
\* content "m" followed by the two digits of i; its author follows one of
\* three patterns: student_A throughout, the two students in turn, or the two
\* students and a reply of the Tutor in turn.
TwoDigits == <<"0", "1", "2", "3", "4", "5", "6", "7", "8", "9">>
LongContent(i) == <<"m", TwoDigits[(i \div 10) + 1], TwoDigits[(i % 10) + 1]>>
AuthorPatterns ==
    {<<"student_A">>, <<"student_A", "student_B">>, <<"student_A", "student_B", "tutor">>}
LongEntry(pattern, i) ==
    LET sender_id == pattern[((i - 1) % Len(pattern)) + 1]
    IN  Message(sender_id, IF sender_id = "tutor" THEN "pta" ELSE "student", LongContent(i))
LongHistories ==
    {[i \in 1..n |-> LongEntry(pattern, i)] : n \in 0..MaxLong, pattern \in AuthorPatterns}

\* A Facilitator turn applied on its own: a history, an unaddressed message
\* and the Facilitator's reply are drawn first, then handle_turn is called on
\* them with the period 1, under which the turn is a due one.
InitConvo ==
    /\ history = <<>>
    /\ casm = EmptyCASM
    /\ cga_frequency = PyInt(1)
    /\ turn = NoTurn
    /\ probe \in {[op |-> "turn", history |-> h, new_message |-> new_message,
                    reply |-> reply, result |-> NoResult] :
                        h \in LongHistories, new_message \in UpdateMessages,
                        reply \in {RawHint, RawNone}}

ApplyHandleTurn ==
    /\ probe.op = "turn"
    /\ probe' = [probe EXCEPT !.op = "handle_turn",
                   !.result = handle_turn(<<GenReturns("{}"), GenReturns(probe.reply)>>,
                                          probe.new_message, probe.history, casm,
                                          participants, task_context, cga_frequency)]
    /\ UNCHANGED <<history, casm, cga_frequency, turn>>

NextConvo == ApplyHandleTurn

SpecConvo == InitConvo /\ [][NextConvo]_vars

\* The summaries applied on their own: a learner state, a student and a list
\* of participants (of three students, in any order, repeats included) are
\* drawn first, then either summary is called and its text kept together with
\* the learner state as the call leaves it.
PairCASM ==
    [semantic |-> EmptyDict, episodic |-> EmptyDict,
     social |-> [student_A |-> CASMProfile("high", <<"off-by-one">>, "engaged", "low"),
                 student_B |-> DefaultProfile]]
SummaryStudents == {"student_A", "student_B", "student_C"}
ParticipantLists == UNION {[1..n -> SummaryStudents] : n \in 0..MaxParticipants}

InitSummary ==
    /\ history = <<>>
    /\ casm = EmptyCASM
    /\ cga_frequency = PyInt(4)
    /\ turn = NoTurn
    /\ probe \in {[op |-> "casm", casm |-> state, student_id |-> student_id,
                    participant_ids |-> participant_ids, text |-> <<>>,
                    casm_after |-> state] :
                        state \in {EmptyCASM, SeededCASM, PairCASM},
                        student_id \in SummaryStudents,
                        participant_ids \in ParticipantLists}

ApplySummariseStudent ==
    /\ probe.op = "casm"
    /\ probe' = [probe EXCEPT !.op = "summarise_casm_for_student",
                   !.text = summarise_casm_for_student(probe.casm, probe.student_id),
                   !.casm_after = CasmAfterStudentSummary(probe.casm, probe.student_id)]
    /\ UNCHANGED <<history, casm, cga_frequency, turn>>

ApplySummariseGroup ==
    /\ probe.op = "casm"
    /\ probe' = [probe EXCEPT !.op = "summarise_group_state",
                   !.text = summarise_group_state(probe.casm, probe.participant_ids),
                   !.casm_after = CasmAfterGroupSummary(probe.casm, probe.participant_ids)]
    /\ UNCHANGED <<history, casm, cga_frequency, turn>>

NextSummary == ApplySummariseStudent \/ ApplySummariseGroup

SpecSummary == InitSummary /\ [][NextSummary]_vars

\* The student UI's choice of cga_frequency from the condition of the session.
CONDITIONS == {"alone_tutor", "pair_tutor", "pair_multiagent"}
VERY_LARGE == 1000000000

ConditionFrequency(condition_code) ==
    IF condition_code = "pair_multiagent" THEN PyInt(4) ELSE PyInt(VERY_LARGE)

\* The numbers of student turns the routing is applied to: the small ones, and
\* the ones around the very large number and its double.
StudentTurnCounts ==
    (1..MaxCount) \cup {VERY_LARGE - 1, VERY_LARGE, VERY_LARGE + 1, 2 * VERY_LARGE}

\* The UI's routing applied on its own: a condition, a message and a number of
\* student turns in the extended history are drawn first, then the
\* cga_frequency is chosen from the condition and handle_turn's branch taken.
InitCondition ==
    /\ history = <<>>
    /\ casm = EmptyCASM
    /\ cga_frequency = PyInt(4)
    /\ turn = NoTurn
    /\ probe \in {[op |-> "send", condition_code |-> c, content |-> content,
                    total_student_turns |-> n, cga_frequency |-> PyNone, branch |-> ""] :
                        c \in CONDITIONS, content \in {Hi, AtTutor}, n \in StudentTurnCounts}

ApplySelectBranch ==
    /\ probe.op = "send"
    /\ LET frequency == ConditionFrequency(probe.condition_code)
       IN  probe' = [probe EXCEPT !.op = "handle_turn",
                        !.cga_frequency = frequency,
                        !.branch = SelectBranch(probe.content, probe.total_student_turns,
                                                frequency)]
    /\ UNCHANGED <<history, casm, cga_frequency, turn>>

NextCondition == ApplySelectBranch

SpecCondition == InitCondition /\ [][NextCondition]_vars

\* Sessions in which the agents' replies differ in the value of the tag only,
\* under one period.
InitTags ==
    /\ history = <<>>
    /\ casm = EmptyCASM
    /\ cga_frequency = PyInt(2)
    /\ turn = NoTurn
    /\ probe = NoProbe

TagMessages ==
    {Message("student_A", "student", Hi), Message("student_B", "student", AtTutor)}

NextTags ==
    \E new_message \in TagMessages :
        \E agent \in Generations(TagReplies) :
            HandleTurn(new_message, GenReturns("{}"), agent)

SpecTags == InitTags /\ [][NextTags]_vars

\* The two strategies applied on their own to one agent output: the output is
\* drawn first, then either strategy is called on it with a client that
\* returns it.
InitParse ==
    /\ history = <<>>
    /\ casm = EmptyCASM
    /\ cga_frequency = PyInt(4)
    /\ turn = NoTurn
    /\ probe \in {[op |-> "raw", raw |-> raw, response |-> PyNone] : raw \in LinedReplies}

ApplyPtaStep ==
    /\ probe.op = "raw"
    /\ probe' = [probe EXCEPT !.op = "pta_step",
                   !.response = pta_step(GenReturns(probe.raw),
                                         Message("student_A", "student", Hi),
                                         casm, task_context).response]
    /\ UNCHANGED <<history, casm, cga_frequency, turn>>

ApplyCgaStep ==
    /\ probe.op = "raw"
    /\ probe' = [probe EXCEPT !.op = "cga_step",
                   !.response = cga_step(GenReturns(probe.raw), history, casm,
                                         participants).response]
    /\ UNCHANGED <<history, casm, cga_frequency, turn>>

NextParse == ApplyPtaStep \/ ApplyCgaStep

SpecParse == InitParse /\ [][NextParse]_vars

----------------------------------------------------------------------------
(* What the claims speak of *)

\* The message of the last call contains "@" and, in any case, "tutor".
Addressed == 
    /\ \E i \in 1..Len(turn.new_message.content) : turn.new_message.content[i] = "@"
    /\ StrContains(<<"t", "u", "t", "o", "r">>, StrLower(turn.new_message.content))

\* The number of entries of h with role student, counted entry by entry.
RECURSIVE NumStudentEntries(_)
NumStudentEntries(h) ==
    IF h = <<>> THEN 0
    ELSE NumStudentEntries(Tail(h)) + (IF Head(h).sender_role = "student" THEN 1 ELSE 0)

\* The extended history of the last call and its student-turn count n.
Extended == turn.history \o <<turn.new_message>>
TurnCount == NumStudentEntries(Extended)

\* The last call got as far as the routing: the learner-state update before it
\* did not raise.
ReachedRouting == turn.called /\ turn.result.raised # "AttributeError"

Returned == turn.called /\ turn.result.raised = ""

PositivePeriod == cga_frequency.type = "int" /\ cga_frequency.value > 0

\* n is a nonzero multiple of the positive period.
DueTurn ==
    PositivePeriod /\ TurnCount > 0 /\ TurnCount % cga_frequency.value = 0

\* The generate calls of the last call made for the given strategy.
CallsFor(agent) ==
    {i \in 1..Len(turn.result.calls) : turn.result.calls[i].prompt = agent}

----------------------------------------------------------------------------
\* C1: a message that contains "@" and, case-insensitively, "tutor" is routed
\* to the Tutor Agent and never to the Facilitator, whatever the history, the
\* learner state and the period, and also on a turn whose student-turn count
\* is a nonzero multiple of the period: no generate call is made for the
\* Facilitator, and every call that gets as far as the routing invokes the
\* Tutor Agent.
C1_AddressedGoesToTutor ==
    (turn.called /\ Addressed) =>
        /\ turn.result.agent # "cga"
        /\ CallsFor("cga") = {}
        /\ ReachedRouting =>
              /\ turn.result.agent = "pta"
              /\ CallsFor("pta") = {2}
              /\ turn.result.raised \in {"", "generate"}

\* An addressed message on a due turn, answered by the Tutor Agent.
C1_Witness ==
    /\ Returned /\ Addressed /\ DueTurn
    /\ cga_frequency.value = 4 /\ TurnCount = 4
    /\ turn.result.response.agent_role = "pta"

\* C2: with a positive period p and a message that is not addressed to the
\* tutor, the Facilitator is invoked if and only if the number n of student
\* entries of the extended history is a nonzero multiple of p, and the Tutor
\* Agent is invoked otherwise (p = 4: turns 1-3 Tutor, turn 4 Facilitator,
\* turn 5 Tutor, ...).
C2_PeriodicRouting ==
    (ReachedRouting /\ PositivePeriod /\ ~Addressed) =>
        /\ turn.result.agent = (IF DueTurn THEN "cga" ELSE "pta")
        /\ CallsFor(turn.result.agent) = {2}
        /\ CallsFor(IF DueTurn THEN "pta" ELSE "cga") = {}
        /\ turn.result.raised \in {"", "generate"}

\* The fourth unaddressed student turn under p = 4, answered by the Facilitator
\* after three turns answered by the Tutor.
C2_Witness ==
    /\ Returned /\ ~Addressed /\ cga_frequency = PyInt(4)
    /\ TurnCount = 4 /\ Len(Extended) = 4
    /\ turn.result.response # PyNone
    /\ turn.result.response.agent_role = "cga"

\* C3: handle_turn returns no response exactly when the Facilitator branch was
\* taken and the Facilitator's parsed tag is NONE; the Facilitator's generate
\* call was made all the same, and the returned history and learner state are
\* those of the same call with a reply that is surfaced.  A Tutor Agent's
\* response is returned whatever its tag.
C3_Suppression ==
    Returned =>
        LET r == turn.result
            surfaced == handle_turn(<<r.calls[1].outcome, GenReturns(RawHint)>>,
                                    turn.new_message, turn.history, turn.casm,
                                    participants, task_context, cga_frequency)
        IN  /\ (r.response = PyNone) <=>
                   (r.agent = "cga" /\ r.agent_response.action_tag = <<"N", "O", "N", "E">>)
            /\ r.response # PyNone => r.response = r.agent_response
            /\ r.agent_response # PyNone
            /\ r.agent_response.agent_role = r.agent
            /\ r.response = PyNone =>
                   /\ CallsFor("cga") = {2}
                   /\ ~r.calls[2].outcome.raises
                   /\ surfaced.response # PyNone
                   /\ r.history = surfaced.history
                   /\ r.casm = surfaced.casm
                   /\ history = r.history /\ casm = r.casm

\* A suppressed Facilitator turn whose update changed the learner state.
C3_Witness ==
    /\ Returned
    /\ turn.result.response = PyNone
    /\ turn.result.agent = "cga"
    /\ turn.result.calls[2].outcome = GenReturns(RawNone)
    /\ turn.casm # casm

\* A Tutor Agent's response with the tag NONE, returned.
C3_WitnessTutorNone ==
    /\ Returned
    /\ turn.result.response # PyNone
    /\ turn.result.response.agent_role = "pta"
    /\ turn.result.response.action_tag = <<"N", "O", "N", "E">>

\* C4 (as claimed): with cga_frequency None the Facilitator branch is never
\* taken, and every turn that is not addressed to the tutor completes with a
\* Tutor Agent response.
C4_DisabledFacilitator ==
    (ReachedRouting /\ cga_frequency = PyNone) =>
        /\ turn.result.agent # "cga"
        /\ ~Addressed =>
              /\ turn.result.raised \in {"", "generate"}
              /\ turn.result.agent = "pta"
              /\ turn.result.raised = "" => turn.result.response.agent_role = "pta"

----------------------------------------------------------------------------
(* The learner-state update *)

\* The outcome of the inference call of the last turn, and what json.loads
\* makes of its reply.
InferOutcome == turn.result.calls[1].outcome
InferData == JsonLoads(InferOutcome.text)

Sender == turn.new_message.sender_id

\* C5: when the generate call of the learner-state update raises, the whole
\* learner state (every profile, and the set of students that have one) is what
\* it was before the call, no exception of the update reaches the caller, and
\* handle_turn goes on to the routing and to the agent's generate call.
C5_NoOpOnGenerationFailure ==
    (turn.called /\ InferOutcome.raises) =>
        /\ turn.result.casm = turn.casm
        /\ casm = turn.casm
        /\ turn.result.raised \in {"", "generate"}
        /\ turn.result.total_student_turns = TurnCount
        /\ turn.result.agent = (IF DueTurn /\ ~Addressed THEN "cga" ELSE "pta")
        /\ CallsFor(turn.result.agent) = {2}

\* A turn whose inference call raised while the sender had a profile that is
\* not the default one, answered by an agent.
C5_Witness ==
    /\ Returned /\ InferOutcome.raises
    /\ Sender \in DOMAIN casm.social
    /\ casm.social[Sender] # DefaultProfile
    /\ DOMAIN casm.social = StudentIds
    /\ turn.result.response # PyNone

\* C6 (as claimed): for every reply of the inference call that is not a JSON
\* object (not JSON at all, or a JSON array, number, string or null) the update
\* leaves the learner state as it was and raises nothing.
C6_NoOpOnMalformedOutput ==
    (turn.called /\ ~InferOutcome.raises /\ InferData.kind # "dict") =>
        /\ casm = turn.casm
        /\ turn.result.raised # "AttributeError"

\* C7: after a successful update for student S each of the four profile fields
\* is the value of the parsed object when the key is present, and otherwise
\* the value S's profile had before; the defaults {medium, [], neutral, medium}
\* stand in for absent keys only when S had no profile before.
C7_MergeSemantics ==
    (turn.called /\ ~InferOutcome.raises /\ InferData.kind = "dict") =>
        LET before == IF Sender \in DOMAIN turn.casm.social
                      THEN turn.casm.social[Sender]
                      ELSE [knowledge_level |-> "medium", misconceptions |-> <<>>,
                            affect |-> "neutral", talkativeness |-> "medium"]
        IN  /\ Sender \in DOMAIN casm.social
            /\ \A f \in {"knowledge_level", "affect", "talkativeness", "misconceptions"} :
                  casm.social[Sender][f] =
                      IF f \in DOMAIN InferData.value
                      THEN InferData.value[f]
                      ELSE before[f]

\* The example of the merge: {high, engaged, low, ["off-by-one"]} updated with
\* {"affect": "confused"} gives {high, confused, low, ["off-by-one"]}.
C7_Witness ==
    /\ turn.called /\ ~InferOutcome.raises
    /\ InferData.value = [affect |-> "confused"]
    /\ Sender \in DOMAIN turn.casm.social
    /\ turn.casm.social[Sender] = CASMProfile("high", <<"off-by-one">>, "engaged", "low")
    /\ casm.social[Sender] = CASMProfile("high", <<"off-by-one">>, "confused", "low")

----------------------------------------------------------------------------
(* The history *)

\* C8: the history a call returns is the history passed in with the new message
\* appended at the end and nothing else added, changed, reordered or removed;
\* the list object the caller passed in keeps its contents; a caller that
\* passes the returned history back therefore only ever sees it grow by the
\* message of each turn.
C8_AppendOnly ==
    turn.called =>
        /\ turn.result.caller_history = turn.history
        /\ turn.result.history = turn.history \o <<turn.new_message>>
        /\ history = (IF turn.result.raised = ""
                      THEN turn.history \o <<turn.new_message>>
                      ELSE turn.history)

\* A returned call on a history that already had three entries.
C8_Witness ==
    /\ Returned /\ Len(turn.history) = 3 /\ Len(history) = 4
    /\ turn.history[1] # turn.history[2]

\* C9: the count the periodic test uses is the number of entries of the
\* extended history whose role is student (entries with another role are not
\* counted, and no counter of turns is kept beside the history): entries the
\* caller put on the history itself count in the next call's routing.
C9_CountFromHistory ==
    ReachedRouting =>
        /\ turn.result.total_student_turns = TurnCount
        /\ (PositivePeriod /\ ~Addressed) =>
               turn.result.agent = (IF DueTurn THEN "cga" ELSE "pta")

\* The first call of a session on a history the caller filled with a student
\* message and an agent's reply: n is 2, and under p = 2 the Facilitator is
\* invoked.
C9_Witness ==
    /\ turn.called /\ ~Addressed
    /\ Len(turn.history) = 2
    /\ turn.history[1].sender_id = "student_B"
    /\ turn.history[2].sender_role = "pta"
    /\ cga_frequency = PyInt(2)
    /\ turn.result.total_student_turns = 2
    /\ turn.result.agent = "cga"

----------------------------------------------------------------------------
(* Failures of the agent's generate call *)

\* C10: when the generate call made by the Tutor or the Facilitator strategy
\* raises, handle_turn raises: nothing is returned and no AgentResponse is
\* made up, the generate call is not made again and the other strategy is not
\* invoked.
C10_AgentFailureFailsTurn ==
    (turn.called /\ Len(turn.result.calls) >= 2 /\ turn.result.calls[2].outcome.raises) =>
        /\ turn.result.raised = "generate"
        /\ turn.result.response = PyNone
        /\ turn.result.agent_response = PyNone
        /\ Len(turn.result.calls) = 2
        /\ turn.result.agent \in {"pta", "cga"}
        /\ turn.result.calls[2].prompt = turn.result.agent
        /\ history = turn.history

\* A due Facilitator turn whose generate call raised.
C10_Witness ==
    /\ turn.called /\ DueTurn /\ ~Addressed
    /\ turn.result.calls[2].prompt = "cga"
    /\ turn.result.calls[2].outcome.raises
    /\ turn.result.raised = "generate"

\* A Tutor turn whose generate call raised.
C10_WitnessTutor ==
    /\ turn.called /\ Len(turn.result.calls) = 2
    /\ turn.result.calls[2].prompt = "pta"
    /\ turn.result.calls[2].outcome.raises
    /\ turn.result.raised = "generate"

----------------------------------------------------------------------------
(* The tag line of an agent's output *)

\* The lines of the agent output the strategy was applied to.
OutputLines == SplitLines(probe.raw)

\* The positions of the output's tag lines.
TagLineAt == {i \in 1..Len(OutputLines) : IsTagLine(OutputLines[i])}

Parsed == probe.op \in {"pta_step", "cga_step"}

NotTagLine(line) == ~IsTagLine(line)

\* C11: for every agent output and both strategies, the action tag is the
\* upper-cased, trimmed remainder after the first colon of a tag line of the
\* output wherever that line stands (the last one when there are several), the
\* content is the other lines in their order joined by line feeds and trimmed,
\* and no line of the content is a tag line.
C11_TagAnywhere ==
    Parsed =>
        /\ TagLineAt # {} =>
                LET last == CHOOSE i \in TagLineAt : \A j \in TagLineAt : j <= i
                    rest == AfterFirstColon(OutputLines[last])
                IN  probe.response.action_tag = StrUpper(Strip(rest))
        /\ probe.response.content = Strip(JoinLines(SelectSeq(OutputLines, NotTagLine)))
        /\ \A i \in 1..Len(SplitLines(probe.response.content)) :
                ~IsTagLine(SplitLines(probe.response.content)[i])

\* Reached: a three-line output whose tag line stands first, before two lines
\* of content, parsed by the Facilitator strategy; and one whose tag line
\* stands in the middle, parsed by the Tutor strategy.
C11_Witness ==
    /\ probe.op = "cga_step"
    /\ Len(OutputLines) = 3
    /\ TagLineAt = {1}
    /\ probe.response.action_tag = <<"H", "I", "N", "T">>
    /\ probe.response.content # <<>>

\* The agent's generate call of the last call returned a text.
AgentReplied ==
    /\ turn.called
    /\ Len(turn.result.calls) = 2
    /\ ~turn.result.calls[2].outcome.raises

\* The text it returned, and whether one of its lines is a tag line.
AgentRaw == turn.result.calls[2].outcome.text
HasTagLine(raw) == \E i \in 1..Len(SplitLines(raw)) : IsTagLine(SplitLines(raw)[i])

AgentRepliedWithoutTag == AgentReplied /\ ~HasTagLine(AgentRaw)

DefaultTag(agent) == IF agent = "pta" THEN UNKNOWN ELSE NONE

\* C12, as stated: when the agent's output has no tag line, the turn returns,
\* the tag is the default of the strategy (UNKNOWN for the Tutor, NONE for the
\* Facilitator) and the trimmed raw text is the content of the response the
\* turn returns, for the Tutor and for the Facilitator alike.
C12_AbsentTagSurfaced ==
    AgentRepliedWithoutTag =>
        /\ turn.result.raised = ""
        /\ turn.result.response # PyNone
        /\ turn.result.response.action_tag = DefaultTag(turn.result.agent)
        /\ turn.result.response.content = Strip(AgentRaw)

\* C12, amended: when the agent's output has no tag line, the turn returns and
\* the strategy's AgentResponse has the default tag of the strategy and the
\* trimmed raw text as content; the Tutor's is the response of the turn, the
\* Facilitator's, tagged NONE by default, is suppressed and the turn returns
\* no response.
C12_AbsentTagDefault ==
    AgentRepliedWithoutTag =>
        /\ turn.result.raised = ""
        /\ turn.result.agent_response # PyNone
        /\ turn.result.agent_response.action_tag = DefaultTag(turn.result.agent)
        /\ turn.result.agent_response.content = Strip(AgentRaw)
        /\ turn.result.agent = "pta" => turn.result.response = turn.result.agent_response
        /\ turn.result.agent = "cga" => turn.result.response = PyNone

\* A Facilitator turn whose output "ok" has no tag line: tagged NONE and not
\* returned.
C12_Witness ==
    /\ AgentRepliedWithoutTag
    /\ turn.result.agent = "cga"
    /\ turn.result.agent_response.action_tag = NONE
    /\ turn.result.agent_response.content = RawPlain
    /\ turn.result.response = PyNone

----------------------------------------------------------------------------
(* The first turn of a session *)

\* The last call was made on an empty history and got as far as the routing.
FirstTurn == ReachedRouting /\ turn.history = <<>>

\* C13: for every positive period, 1 included, the first student turn of a
\* session (empty history before the call) is routed to the Tutor Agent,
\* addressed or not, and a student-turn count of 0 never invokes the
\* Facilitator.
C13_FirstTurnToTutor ==
    /\ (FirstTurn /\ PositivePeriod) =>
            /\ CallsFor("cga") = {}
            /\ turn.result.agent # "cga"
    /\ (ReachedRouting /\ TurnCount = 0) => turn.result.agent # "cga"

----------------------------------------------------------------------------
(* What the routing and the update do not depend on *)

\* Other values of the two parameters.
OtherParticipants ==
    {<<>>, <<"student_B">>, <<"student_C", "student_B", "student_A">>}
OtherTaskContexts == {"", "sort a list"}

\* The results of the generate calls of the last call, in order; a call that
\* was not made has no result to give.
GenerateResults ==
    <<turn.result.calls[1].outcome,
      IF Len(turn.result.calls) = 2 THEN turn.result.calls[2].outcome ELSE GenRaises>>

\* The last call made again on the same message, history and learner state and
\* with the same generation results, with other participants and task context.
SameTurnWith(participant_ids, context) ==
    handle_turn(GenerateResults, turn.new_message, turn.history, turn.casm,
                participant_ids, context, cga_frequency)

\* The prompt of the agent's generate call of a result, when it was made.
AgentPromptOf(result) ==
    IF Len(result.calls) = 2 THEN result.calls[2].user_prompt ELSE PyNone

\* C14: task_context and participant_ids are opaque. A turn made with other
\* participants and another task context, on the same message, history and
\* learner state and with the same generation results, ends the same way,
\* invokes the same agent, makes the same generate calls with the same
\* results and gives the same history and the same learner state; as every
\* turn starts from the history and the learner state the turn before it
\* left, two such runs agree after every turn.
C14_OpaqueParameters ==
    turn.called =>
        \A participant_ids \in OtherParticipants, context \in OtherTaskContexts :
            LET other == SameTurnWith(participant_ids, context)
            IN  /\ other.raised = turn.result.raised
                /\ other.agent = turn.result.agent
                /\ other.total_student_turns = turn.result.total_student_turns
                /\ other.history = turn.result.history
                /\ other.casm = turn.result.casm
                /\ Len(other.calls) = Len(turn.result.calls)
                /\ \A i \in 1..Len(other.calls) :
                        /\ other.calls[i].prompt = turn.result.calls[i].prompt
                        /\ other.calls[i].outcome = turn.result.calls[i].outcome

\* Reached: a returned Facilitator turn on a learner state with a profile, whose prompt is another
\* one for each of the other lists of participants.
C14_Witness ==
    /\ Returned
    /\ turn.result.agent = "cga"
    /\ DOMAIN turn.result.casm.social # {}
    /\ \A participant_ids \in OtherParticipants :
            AgentPromptOf(SameTurnWith(participant_ids, task_context))
                # AgentPromptOf(turn.result)

\* Reached: a returned Tutor turn whose prompt is another one for each of the
\* other task contexts.
C14_WitnessTutor ==
    /\ Returned
    /\ turn.result.agent = "pta"
    /\ \A context \in OtherTaskContexts :
            AgentPromptOf(SameTurnWith(participants, context)) # AgentPromptOf(turn.result)

----------------------------------------------------------------------------
(* What the tag decides *)

\* The last call made again with the agent's reply carrying another tag.
SameTurnTagged(tag) ==
    handle_turn(<<turn.result.calls[1].outcome, GenReturns(TagReply(tag))>>,
                turn.new_message, turn.history, turn.casm, participants,
                task_context, cga_frequency)

\* Two results agree on the agent invoked, on how the call ended, on the
\* history and on the learner state.
SameAgentAndState(one, other) ==
    /\ other.raised = one.raised
    /\ other.agent = one.agent
    /\ other.history = one.history
    /\ other.casm = one.casm
    /\ Len(other.calls) = Len(one.calls)

\* Two responses that are both None, or both an AgentResponse with the same
\* content and role.
SameButTag(one, other) ==
    \/ one = PyNone /\ other = PyNone
    \/ /\ one # PyNone /\ other # PyNone
       /\ other.content = one.content
       /\ other.agent_role = one.agent_role

AgentRepliedTagged == AgentReplied /\ AgentRaw \in TagReplies

\* C15, as stated: no decision of handle_turn depends on the tag. Two turns
\* that differ only in the tag of the agent's output invoke the same agent,
\* give the same history and learner state, and return a response in both or
\* in neither, the responses differing in the tag only.
C15_TagNotControlFlow ==
    AgentRepliedTagged =>
        \A tag \in Tags :
            /\ SameAgentAndState(turn.result, SameTurnTagged(tag))
            /\ SameButTag(turn.result.response, SameTurnTagged(tag).response)

\* C15, amended: the tag decides one thing, whether the Facilitator's response
\* is returned. Two turns that differ only in the tag of the agent's output
\* invoke the same agent and give the same history and learner state, and the
\* strategy's AgentResponse differs in the tag only; a Tutor turn returns it
\* whatever the tag, a Facilitator turn returns it unless the tag is NONE.
C15_TagOnlySuppresses ==
    AgentRepliedTagged =>
        /\ \A tag \in Tags :
                /\ SameAgentAndState(turn.result, SameTurnTagged(tag))
                /\ SameButTag(turn.result.agent_response, SameTurnTagged(tag).agent_response)
                /\ SameTurnTagged(tag).agent_response.action_tag = tag
        /\ turn.result.agent = "pta" => turn.result.response = turn.result.agent_response
        /\ turn.result.agent = "cga" =>
                turn.result.response =
                    IF turn.result.agent_response.action_tag = NONE
                    THEN PyNone ELSE turn.result.agent_response

\* Reached: a Facilitator turn that returned a response tagged HINT, which the
\* same turn with the tag NONE does not return.
C15_Witness ==
    /\ AgentRepliedTagged
    /\ turn.result.agent = "cga"
    /\ turn.result.response # PyNone
    /\ turn.result.response.action_tag = <<"H", "I", "N", "T">>
    /\ SameTurnTagged(NONE).response = PyNone

----------------------------------------------------------------------------
(* The conditions of the student UI *)

\* C16: in the student UI, a turn of a session whose condition is alone_tutor
\* or pair_tutor is never routed to the Facilitator, whatever the number of
\* student turns, and in the condition pair_multiagent the period is 4.
C16_OnlyPairMultiagent ==
    probe.op = "handle_turn" =>
        /\ probe.condition_code \in {"alone_tutor", "pair_tutor"} => probe.branch # "cga"
        /\ probe.condition_code = "pair_multiagent" => probe.cga_frequency = PyInt(4)

----------------------------------------------------------------------------
(* A turn that fails in the agent's generate call *)

\* C17: when handle_turn fails because the generate call of the agent
\* strategy raises, the caller's history and the caller's learner state are
\* both as they were before the call.
C17_NoPartialUpdate ==
    (turn.called /\ turn.result.raised = "generate") =>
        /\ history = turn.history
        /\ casm = turn.casm

----------------------------------------------------------------------------
(* The order of the steps of a turn *)

\* The sender's profile as the last call found it and as it left it.
ProfileIn(state, student_id) ==
    IF student_id \in DOMAIN state.social THEN state.social[student_id]
    ELSE [knowledge_level |-> "medium", misconceptions |-> <<>>,
          affect |-> "neutral", talkativeness |-> "medium"]

\* The agent's generate call of the last call was made.
AgentCalled == turn.called /\ Len(turn.result.calls) = 2

\* The summary of one student in the Tutor's prompt shows this profile.
TutorSummaryShows(summary, profile) ==
    /\ summary[2] = profile.knowledge_level
    /\ summary[5] = profile.affect
    /\ summary[8] = profile.talkativeness
    /\ summary[11] = IF profile.misconceptions = <<>> THEN "none noted yet"
                     ELSE profile.misconceptions[1]

\* A line of the group state in the Facilitator's prompt shows this profile.
GroupLineShows(line, student_id, profile) ==
    /\ line[1] = student_id
    /\ line[3] = profile.knowledge_level
    /\ line[5] = profile.affect
    /\ line[7] = profile.talkativeness
    /\ line[9] = IF profile.misconceptions = <<>> THEN "none"
                 ELSE profile.misconceptions[1]

\* C18: the first generate call of a turn is the inference of the
\* learner-state update, and the window of the sender's utterances it is given
\* ends with the new message; the agent's generate call comes second, for the
\* agent the routing chose, and the learner-state summary in its prompt shows
\* the profiles as they are after this turn's update.
C18_OrderOfSteps ==
    turn.called =>
        /\ turn.result.calls[1].prompt = "infer"
        /\ LET window == turn.result.calls[1].user_prompt.last_utterances
           IN  /\ window # <<>>
               /\ window[Len(window)] = turn.new_message.content
        /\ AgentCalled =>
                LET user_prompt == turn.result.calls[2].user_prompt
                IN  /\ turn.result.calls[2].prompt = turn.result.agent
                    /\ turn.result.agent = "pta" =>
                            TutorSummaryShows(user_prompt.casm_summary,
                                              ProfileIn(casm, Sender))
                    /\ turn.result.agent = "cga" =>
                            /\ Len(user_prompt.group_state) = Len(participants)
                            /\ \A i \in 1..Len(participants) :
                                    GroupLineShows(user_prompt.group_state[i], participants[i],
                                                   ProfileIn(casm, participants[i]))
                            /\ user_prompt.convo[Len(user_prompt.convo)][5]
                                    = turn.new_message.content

\* Reached: a Tutor turn whose update changed the affect of the sender's
\* profile to confused, the affect in the prompt's summary.
C18_Witness ==
    /\ AgentCalled
    /\ turn.result.agent = "pta"
    /\ ProfileIn(turn.casm, Sender).affect # "confused"
    /\ ProfileIn(casm, Sender).affect = "confused"
    /\ turn.result.calls[2].user_prompt.casm_summary[5] = "confused"
    /\ Len(turn.history) > 0

----------------------------------------------------------------------------
(* The frame of a turn *)

\* C19: a turn sent by student S changes at most S's profile: every other
\* student's profile, the semantic mapping and the episodic mapping are after
\* the call what they were before it, however the call ended; the agent's
\* strategy and the summaries add no profile of their own (the only profile
\* that can be new is S's, and the learner state after the call is the one
\* the update alone gives); and every student who had a profile before the
\* call has one after it.
C19_FrameOfUpdate ==
    turn.called =>
        /\ casm.semantic = turn.casm.semantic
        /\ casm.episodic = turn.casm.episodic
        /\ DOMAIN turn.casm.social \subseteq DOMAIN casm.social
        /\ DOMAIN casm.social \subseteq DOMAIN turn.casm.social \cup {Sender}
        /\ \A student_id \in DOMAIN turn.casm.social \ {Sender} :
                casm.social[student_id] = turn.casm.social[student_id]
        /\ casm = update_casm_from_messages(InferOutcome, turn.casm, Sender, Extended).casm

\* Reached: a Facilitator turn of student_B, whose summary reads the profiles
\* of both participants, that changed student_B's profile while student_A and
\* student_C have theirs and the semantic mapping has its entry.
C19_Witness ==
    /\ Returned
    /\ turn.result.agent = "cga"
    /\ Sender = "student_B"
    /\ DOMAIN turn.casm.social = {"student_A", "student_B", "student_C"}
    /\ casm.social["student_B"] # turn.casm.social["student_B"]
    /\ casm.semantic # EmptyDict

----------------------------------------------------------------------------
(* The values of the profile fields *)

\* C20: in every reachable state, whatever text the inference call returned,
\* every stored profile has knowledge_level in {low, medium, high}, affect in
\* {neutral, confused, frustrated, engaged} and talkativeness in {low, medium,
\* high}, and its misconceptions are a list.
C20_FieldsWithinEnumerations ==
    \A student_id \in DOMAIN casm.social :
        /\ casm.social[student_id].knowledge_level \in {"low", "medium", "high"}
        /\ casm.social[student_id].affect \in {"neutral", "confused", "frustrated", "engaged"}
        /\ casm.social[student_id].talkativeness \in {"low", "medium", "high"}
        /\ DOMAIN casm.social[student_id].misconceptions
                = 1..Len(casm.social[student_id].misconceptions)

----------------------------------------------------------------------------
(* The calls of a turn *)

\* C21: a call of handle_turn that returns has invoked one agent strategy, the
\* Tutor or the Facilitator, once, and has made two generate calls: the first
\* for the learner-state inference, the second for that agent.
C21_OneAgentPerTurn ==
    Returned =>
        /\ turn.result.agent \in {"pta", "cga"}
        /\ Len(turn.result.calls) = 2
        /\ turn.result.calls[1].prompt = "infer"
        /\ turn.result.calls[2].prompt = turn.result.agent
        /\ Cardinality(CallsFor("pta") \cup CallsFor("cga")) = 1
        /\ turn.result.agent_response # PyNone
        /\ turn.result.agent_response.agent_role = turn.result.agent

\* Reached: a Facilitator turn whose response was suppressed, and which made
\* its two generate calls all the same.
C21_Witness ==
    /\ Returned
    /\ turn.result.agent = "cga"
    /\ turn.result.response = PyNone
    /\ Len(turn.result.calls) = 2
    /\ CallsFor("pta") = {}

----------------------------------------------------------------------------
(* A due turn taken by an addressed message *)

\* The text contains "@" and, in any case, "tutor".
AddressedText(content) ==
    /\ \E i \in 1..Len(content) : content[i] = "@"
    /\ StrContains(<<"t", "u", "t", "o", "r">>, StrLower(content))

\* The student entries of the extended history of the last call, in order.
IsStudentEntry(m) == m.sender_role = "student"
StudentEntries == SelectSeq(Extended, IsStudentEntry)

\* The k-th student turn is a due one: k is a nonzero multiple of the period.
DueAt(k) == PositivePeriod /\ k > 0 /\ k % cga_frequency.value = 0

\* The due turn before the last call was taken by an addressed message, and
\* the turn of the last call is the one after it, not a due one itself.
AfterPreemptedDueTurn ==
    /\ ReachedRouting
    /\ TurnCount >= 2
    /\ DueAt(TurnCount - 1)
    /\ AddressedText(StudentEntries[TurnCount - 1].content)
    /\ ~DueAt(TurnCount)

\* Every due turn of the session so far was taken by an addressed message.
EveryDueTurnAddressed ==
    \A k \in 1..TurnCount : DueAt(k) => AddressedText(StudentEntries[k].content)

\* C22: a due turn taken by an addressed message is skipped, not deferred.
\* Under a positive period the Facilitator is invoked on a turn only when the
\* count n of that very turn is a nonzero multiple of the period and its
\* message is not addressed: the turn after a preempted due turn goes to the
\* Tutor, and a turn of a session whose due turns were all addressed does not
\* invoke the Facilitator.
C22_SkippedNotDeferred ==
    (ReachedRouting /\ PositivePeriod) =>
        /\ turn.result.agent = "cga" => (DueAt(TurnCount) /\ ~Addressed)
        /\ AfterPreemptedDueTurn =>
                /\ turn.result.agent = "pta"
                /\ CallsFor("cga") = {}
        /\ EveryDueTurnAddressed =>
                /\ turn.result.agent = "pta"
                /\ CallsFor("cga") = {}

\* Reached: period 2, the second student turn was addressed to the tutor and
\* the third, which is not, was answered by the Tutor.
C22_Witness ==
    /\ Returned
    /\ cga_frequency = PyInt(2)
    /\ AfterPreemptedDueTurn
    /\ TurnCount = 3
    /\ ~Addressed
    /\ turn.result.response.agent_role = "pta"

\* Reached: period 2, four student turns of which the second and the fourth
\* were addressed to the tutor, the fourth answered by the Tutor.
C22_WitnessNever ==
    /\ Returned
    /\ cga_frequency = PyInt(2)
    /\ TurnCount = 4
    /\ EveryDueTurnAddressed
    /\ turn.result.response.agent_role = "pta"

----------------------------------------------------------------------------
(* A period that is not positive *)

\* C23: with a cga_frequency that is an integer and not positive (0 or
\* negative) the Facilitator is invoked for no n: every call that gets as far
\* as the routing goes to the Tutor Agent, and the routing raises nothing.
C23_NonPositivePeriod ==
    (ReachedRouting /\ cga_frequency.type = "int" /\ cga_frequency.value <= 0) =>
        /\ turn.result.agent = "pta"
        /\ CallsFor("cga") = {}
        /\ turn.result.raised \in {"", "generate"}

----------------------------------------------------------------------------
(* The window of the inference *)

\* The positions of the student's own messages in the given history, and the
\* r-th of them in history order.
OwnPositions ==
    {i \in 1..Len(probe.recent_messages) :
        probe.recent_messages[i].sender_id = probe.student_id}
OwnPosition(r) ==
    CHOOSE i \in OwnPositions : Cardinality({k \in OwnPositions : k <= i}) = r

\* C24: the window of the inference holds the contents of the student's own
\* messages only: the last 5 of them in history order, all of them when there
\* are fewer than 5, none when there is none, however many messages of other
\* senders stand between or after them.
C24_InferenceWindow ==
    probe.op = "update_casm_from_messages" =>
        LET window == probe.user_prompt.last_utterances
            own == Cardinality(OwnPositions)
            size == IF own < 5 THEN own ELSE 5
        IN  /\ Len(window) = size
            /\ \A j \in 1..size :
                    window[j] = probe.recent_messages[OwnPosition(own - size + j)].content

\* Reached: the student wrote the first six messages of a history of seven,
\* another sender the last one: the window is the student's last five, from
\* the second message of the history to the sixth.
C24_Witness ==
    /\ probe.op = "update_casm_from_messages"
    /\ Len(probe.recent_messages) = 7
    /\ OwnPositions = {1, 2, 3, 4, 5, 6}
    /\ Len(probe.user_prompt.last_utterances) = 5
    /\ probe.user_prompt.last_utterances[1] = <<"m", "2">>
    /\ probe.user_prompt.last_utterances[5] = <<"m", "6">>

----------------------------------------------------------------------------
(* The conversation given to the Facilitator *)

\* The history of the applied turn with its message at the end.
ProbeExtended == probe.history \o <<probe.new_message>>

\* The line of the conversation is the rendering of this entry.
LineRenders(line, m) ==
    /\ Len(line) = 5
    /\ line[1] = m.sender_id
    /\ line[2] = " ("
    /\ line[3] = m.sender_role
    /\ line[4] = "): "
    /\ line[5] = m.content

\* C25: the conversation in the Facilitator's prompt is the last 15 entries of
\* the extended history, in their order, one line per entry (every entry when
\* the extended history has fewer than 15), and its last line is the message
\* of the current turn.
C25_FacilitatorWindow ==
    (probe.op = "handle_turn" /\ probe.result.agent = "cga") =>
        LET convo == probe.result.calls[2].user_prompt.convo
            total == Len(ProbeExtended)
            size == IF total < 15 THEN total ELSE 15
        IN  /\ Len(convo) = size
            /\ \A j \in 1..size : LineRenders(convo[j], ProbeExtended[total - size + j])
            /\ LineRenders(convo[size], probe.new_message)

\* Reached: a Facilitator turn on a history of 17 entries: the conversation
\* has 15 lines, from the fourth entry of the history to the new message.
C25_Witness ==
    /\ probe.op = "handle_turn"
    /\ probe.result.agent = "cga"
    /\ Len(probe.history) = 17
    /\ Len(probe.result.calls[2].user_prompt.convo) = 15
    /\ probe.result.calls[2].user_prompt.convo[1][5] = <<"m", "0", "4">>
    /\ probe.result.calls[2].user_prompt.convo[15][5] = probe.new_message.content

----------------------------------------------------------------------------
(* The summaries *)

\* C26: the two summaries leave the learner state as it was, also when they
\* summarise a student who has no profile, for whom they show the default
\* profile without storing it; and the group summary has one line per
\* element of participant_ids, in the order given, each showing the profile
\* of that participant.
C26_SummariesPureAndOrdered ==
    /\ probe.op = "summarise_casm_for_student" =>
            /\ probe.casm_after = probe.casm
            /\ TutorSummaryShows(probe.text, ProfileIn(probe.casm, probe.student_id))
    /\ probe.op = "summarise_group_state" =>
            /\ probe.casm_after = probe.casm
            /\ Len(probe.text) = Len(probe.participant_ids)
            /\ \A i \in 1..Len(probe.participant_ids) :
                    GroupLineShows(probe.text[i], probe.participant_ids[i],
                                   ProfileIn(probe.casm, probe.participant_ids[i]))

\* Reached: the group summary of student_C, student_A, student_C over a
\* learner state in which student_C has no profile: three lines in that
\* order, the default profile shown for student_C, and no profile stored.
C26_Witness ==
    /\ probe.op = "summarise_group_state"
    /\ probe.participant_ids = <<"student_C", "student_A", "student_C">>
    /\ DOMAIN probe.casm.social = {"student_A", "student_B"}
    /\ Len(probe.text) = 3
    /\ probe.text[1][1] = "student_C" /\ probe.text[1][3] = "medium"
    /\ probe.text[2][1] = "student_A" /\ probe.text[2][3] = "high"
    /\ DOMAIN probe.casm_after.social = {"student_A", "student_B"}

====
